---- MODULE Spec2Model ----
(***************************************************************************)
(* Session Store (useAuthStore) and Request Gateway (ApiClient) of the     *)
(* RBAC administration client.                                             *)
(*                                                                         *)
(* The JavaScript runtime is single-threaded: an asynchronous operation    *)
(* runs without interruption from one await to the next, and suspends      *)
(* only while a network call is outstanding.  One action of this module    *)
(* is one such uninterrupted run: the start of an operation up to its      *)
(* first network call, or the arrival of a network response together with  *)
(* everything the interceptor and the awaiting operation do with it.       *)
(***************************************************************************)
EXTENDS Naturals, FiniteSets, Sequences, Bags

(* ---------------------------------------------------------------- bounds *)

\* Number of Gateway requests that may be in flight at the same time.
MaxProcs == 2

\* Cap of the per-request counters (dispatches, refresh calls); the code
\* itself never exceeds two dispatches and one refresh call per request.
MaxCount == 3

(* ------------------------------------------------------------ value sets *)

Null == "null"

\* Access tokens, refresh tokens and identities the server can issue.
AccessTokens == {"A1", "A2"}
RefreshTokens == {"R1"}
Users == {"u1"}

Inc(n) == IF n < MaxCount THEN n + 1 ELSE MaxCount

\* Nothing rendered: no identity, no item asked about.
NoNav == [present |-> FALSE, roles |-> {}, resource |-> "none",
          action |-> "none", op |-> "none", result |-> FALSE]

VARIABLES
    user,            \* store: user
    accessToken,     \* store: accessToken
    refreshToken,    \* store: refreshToken
    isAuthenticated, \* store: isAuthenticated
    isLoading,       \* store: isLoading
    cookieAccess,    \* Cookies 'accessToken'
    cookieRefresh,   \* Cookies 'refreshToken'
    procs,           \* the Gateway requests in flight, each with its awaiting operation
    ev,              \* what the last step did (history)
    mode,            \* "conc": callers overlap operations; "seq": one at a time
    snap,            \* "seq" only: the state when the running operation was called
    nav              \* Sidebar: the identity rendered for, the item asked about, the answer

vars == <<user, accessToken, refreshToken, isAuthenticated, isLoading,
          cookieAccess, cookieRefresh, procs, ev, mode, snap, nav>>

store == <<user, accessToken, refreshToken, isAuthenticated, isLoading>>
cookies == <<cookieAccess, cookieRefresh>>

(* ------------------------------------------------------------ operations *)

\* A request in flight; procs is the bag of them.  kind: the store operation (or plain API call) that
\* awaits a Gateway request; pc: "queued" from the call until the request
\* interceptor has run, "net" while the request is with the server,
\* "gwRefresh" while the interceptor's own refresh call is; retry: the
\* request's _retry flag; sent / refreshes: how often the request was
\* dispatched and how many refresh calls the interceptor issued for it;
\* ret: the value refreshAccessToken has already returned to its caller when
\* its catch block has started the logout this request belongs to; auth0: isAuthenticated when
\* refreshAccessToken was called; mark: the request is the one an observer
\* follows (no code reads it, and at most one request in flight has it).
\* ApiClient.request: a fresh request config handed to the axios instance.
NewRequest(kind, ret, auth0) ==
    [kind |-> kind, pc |-> "net", retry |-> FALSE, sent |-> 1,
     refreshes |-> 0, ret |-> ret, auth0 |-> auth0, mark |-> FALSE]

\* ApiClient.request called from a handler: `await this.client.request`
\* returns to the caller with the request still ahead of the request
\* interceptor, which runs in a later microtask.
QueuedRequest(kind, auth0) ==
    [NewRequest(kind, "none", auth0) EXCEPT !.pc = "queued", !.sent = 0]

AllIdle == procs = EmptyBag

\* The microtasks of the calls made so far have run: no request is still
\* ahead of the request interceptor.  A response is handled only then.
Drained == \A q \in BagToSet(procs) : q.pc # "queued"

\* Nothing the caller awaits is outstanding: the only requests in flight
\* belong to a logout that refreshAccessToken started without awaiting it.
NothingAwaited == \A q \in BagToSet(procs) : q.ret = "false"

\* The bag of requests once request r has settled, and once it has become r2.
Without(r) == procs (-) SetToBag({r})
Becomes(r, r2) == Without(r) (+) SetToBag({r2})
With(r2) == procs (+) SetToBag({r2})

\* The caller's discipline: in "seq" mode an operation is called only when
\* every operation called before has returned.
MayCall ==
    /\ BagCardinality(procs) < MaxProcs
    /\ mode = "seq" => NothingAwaited

\* A call that hands no request to the client (the synchronous store calls,
\* and logout and refreshAccessToken without a refresh token in the store)
\* can be made whenever the caller runs.
MaySync == mode = "seq" => NothingAwaited

NoSnap == [user |-> Null, accessToken |-> Null, refreshToken |-> Null,
           isAuthenticated |-> FALSE, cookieAccess |-> Null,
           cookieRefresh |-> Null, afterLogin |-> FALSE]

\* The state at the moment of a call; afterLogin: the call directly follows
\* a login that succeeded from the logged-out state.
TakeSnap ==
    [user |-> user, accessToken |-> accessToken, refreshToken |-> refreshToken,
     isAuthenticated |-> isAuthenticated, cookieAccess |-> cookieAccess,
     cookieRefresh |-> cookieRefresh,
     afterLogin |-> /\ ev.op = "loginOk"
                    /\ snap.user = Null /\ snap.accessToken = Null
                    /\ snap.refreshToken = Null /\ ~snap.isAuthenticated]

Snapped == snap' = IF mode = "seq" THEN TakeSnap ELSE snap

\* No request: the step handled no response.
NoReq == [kind |-> "none", pc |-> "none", retry |-> FALSE, sent |-> 0,
          refreshes |-> 0, ret |-> "none", auth0 |-> FALSE, mark |-> FALSE]

\* The ApiResponse envelope as far as the client reads it: success, whether
\* data is present, and the fields of data.
Body(success, data, u, at, rt) ==
    [success |-> success, data |-> data, user |-> u, at |-> at, rt |-> rt]

NoBody == Body(FALSE, FALSE, Null, Null, Null)

\* History record of a step.  op: what happened; resp: the network response
\* the step handled; req: the request as it was when that response arrived;
\* err: the error the request was rejected with, or the operation threw;
\* bearer: the Authorization credential of the request the step dispatched;
\* body: the response body the step stored something from; teardown:
\* logout's finally block ran in this step; redirect: the step set
\* window.location.href to '/login'.
Ev(op, resp, req, err, bearer, body, teardown, redirect) ==
    [op |-> op, resp |-> resp, req |-> req, err |-> err, bearer |-> bearer,
     body |-> body, teardown |-> teardown, redirect |-> redirect]

\* A step that handles no response.
CallEv(op, bearer, teardown) ==
    Ev(op, "none", NoReq, "none", bearer, NoBody, teardown, FALSE)

(* ------------------------------------------------- Request Gateway pieces *)

\* Mutant of Bearer: the header is taken from the store's in-memory token.
Bearer_fromStore(c) == IF accessToken # Null THEN accessToken ELSE "none"

\* Request interceptor: the Authorization header of a request dispatched
\* while the access-token cookie holds c ("none": header left as it was,
\* which for a first dispatch means absent).
Bearer(c) == IF c # Null THEN c ELSE "none"

\* Mutant of GwCatch: the catch block redirects but leaves the cookies.
GwCatch_keepsCookies == [ca |-> cookieAccess, cr |-> cookieRefresh, red |-> TRUE]

\* catch (refreshError): both cookies removed, window.location.href set.
GwCatch == [ca |-> Null, cr |-> Null, red |-> TRUE]

\* The interceptor touched neither the cookies nor the location.
GwKeep == [ca |-> cookieAccess, cr |-> cookieRefresh, red |-> FALSE]

(* --------------------------------------------------- server response bodies *)

\* POST /auth/login: {user, accessToken, refreshToken}, or no success.
LoginBodies ==
    {Body(TRUE, TRUE, u, a, r) : u \in Users, a \in AccessTokens, r \in RefreshTokens}
        \cup {NoBody, Body(TRUE, FALSE, Null, Null, Null)}

\* POST /auth/refresh: {accessToken}, or no success, or no accessToken.
RefreshBodies ==
    {Body(TRUE, TRUE, Null, a, Null) : a \in AccessTokens}
        \cup {NoBody, Body(TRUE, TRUE, Null, Null, Null)}

\* Any other endpoint: the store does not read the body.
PlainBodies == {Body(TRUE, FALSE, Null, Null, Null)}

BodiesFor(kind) ==
    CASE kind = "login" -> LoginBodies
      [] kind = "refresh" -> RefreshBodies
      [] OTHER -> PlainBodies

(* ------------------------------------------------------ Session Store pieces *)

\* Mutant of checkAuthState: one cookie is enough to restore the session.
checkAuthState_either(ca, cr, u) ==
    IF ca # Null \/ cr # Null
    THEN [user |-> u, accessToken |-> ca, refreshToken |-> cr,
          isAuthenticated |-> TRUE]
    ELSE [user |-> Null, accessToken |-> Null, refreshToken |-> Null,
          isAuthenticated |-> FALSE]

\* checkAuth's decision on the cookies ca, cr and the stored user u.
checkAuthState(ca, cr, u) ==
    IF ca # Null /\ cr # Null
    THEN [user |-> u, accessToken |-> ca, refreshToken |-> cr,
          isAuthenticated |-> TRUE]
    ELSE [user |-> Null, accessToken |-> Null, refreshToken |-> Null,
          isAuthenticated |-> FALSE]

\* Mutant of loginSuccess: the refresh token is not written to its cookie.
loginSuccess_noRefreshCookie(body) ==
    /\ cookieAccess' = body.at
    /\ user' = body.user
    /\ accessToken' = body.at
    /\ refreshToken' = body.rt
    /\ isAuthenticated' = TRUE
    /\ isLoading' = FALSE
    /\ UNCHANGED cookieRefresh

\* login, success branch: cookies and store take the response's data.
loginSuccess(body) ==
    /\ cookieAccess' = body.at
    /\ cookieRefresh' = body.rt
    /\ user' = body.user
    /\ accessToken' = body.at
    /\ refreshToken' = body.rt
    /\ isAuthenticated' = TRUE
    /\ isLoading' = FALSE

\* login, catch: only isLoading is set; the cookies stay as the Gateway
\* left them.
loginCatch(gw) ==
    /\ isLoading' = FALSE
    /\ cookieAccess' = gw.ca
    /\ cookieRefresh' = gw.cr
    /\ UNCHANGED <<user, accessToken, refreshToken, isAuthenticated>>

\* Mutant of logoutFinally: the cookies are not removed.
logoutFinally_keepsCookies ==
    /\ user' = Null
    /\ accessToken' = Null
    /\ refreshToken' = Null
    /\ isAuthenticated' = FALSE
    /\ isLoading' = FALSE
    /\ UNCHANGED <<cookieAccess, cookieRefresh>>

\* Mutant of logoutFinally: the in-memory tokens are not cleared.
logoutFinally_keepsTokens ==
    /\ cookieAccess' = Null
    /\ cookieRefresh' = Null
    /\ user' = Null
    /\ isAuthenticated' = FALSE
    /\ isLoading' = FALSE
    /\ UNCHANGED <<accessToken, refreshToken>>

\* logout, finally: cookies removed, store cleared.
logoutFinally ==
    /\ cookieAccess' = Null
    /\ cookieRefresh' = Null
    /\ user' = Null
    /\ accessToken' = Null
    /\ refreshToken' = Null
    /\ isAuthenticated' = FALSE
    /\ isLoading' = FALSE

\* refreshAccessToken, success branch.
refreshSuccess(tok, gw) ==
    /\ cookieAccess' = tok
    /\ cookieRefresh' = gw.cr
    /\ accessToken' = tok
    /\ isAuthenticated' = TRUE
    /\ UNCHANGED <<user, refreshToken, isLoading>>

\* logout reads the store's refresh token to decide whether to notify the
\* server.
logoutNotifies == refreshToken # Null

\* refreshAccessToken, catch: get().logout() is called and not awaited, and
\* false is returned.  The logout either runs to its end at once (nothing to
\* notify) or suspends at its server notification.
refreshCatch(r, gw, resp, err) ==
    IF logoutNotifies
    THEN /\ cookieAccess' = gw.ca
         /\ cookieRefresh' = gw.cr
         /\ UNCHANGED store
         /\ procs' = Becomes(r, NewRequest("logout", "false", r.auth0))
         /\ ev' = Ev("refreshFail", resp, r, err, Bearer(gw.ca), NoBody, FALSE, gw.red)
    ELSE /\ logoutFinally
         /\ procs' = Without(r)
         /\ ev' = Ev("refreshFail", resp, r, err, "none", NoBody, TRUE, gw.red)

\* What the operation awaiting request p does when the request settles:
\* ok: resolved with body; otherwise rejected with err.  gw: the cookies and
\* location as the interceptor left them; resp: the response handled.
Settle(r, ok, body, err, gw, resp) ==
    /\ UNCHANGED <<mode, snap, nav>>
    /\ CASE r.kind = "login" ->
              IF ok /\ body.success /\ body.data
              THEN /\ loginSuccess(body)
                   /\ procs' = Without(r)
                   /\ ev' = Ev("loginOk", resp, r, "none", "none", body, FALSE, gw.red)
              ELSE /\ loginCatch(gw)
                   /\ procs' = Without(r)
                   /\ ev' = Ev("loginFail", resp, r,
                               IF ok THEN "LoginFailed" ELSE err, "none", NoBody, FALSE, gw.red)
         [] r.kind = "logout" ->
              /\ logoutFinally
              /\ procs' = Without(r)
              /\ ev' = Ev("logoutDone", resp, r, err, "none", NoBody, TRUE, gw.red)
         [] r.kind = "refresh" ->
              IF ok /\ body.success /\ body.at # Null
              THEN /\ refreshSuccess(body.at, gw)
                   /\ procs' = Without(r)
                   /\ ev' = Ev("refreshOk", resp, r, "none", "none", body, FALSE, gw.red)
              ELSE refreshCatch(r, gw, resp, IF ok THEN "RefreshFailed" ELSE err)
         [] OTHER ->
              /\ cookieAccess' = gw.ca
              /\ cookieRefresh' = gw.cr
              /\ UNCHANGED store
              /\ procs' = Without(r)
              /\ ev' = Ev(IF ok THEN "apiOk" ELSE "apiFail", resp, r, err,
                          "none", NoBody, FALSE, gw.red)

(* ------------------------------------------------------------ store calls *)

\* login(credentials): isLoading set, POST /auth/login handed to the client.
LoginCall ==
    /\ MayCall
    /\ isLoading' = TRUE
    /\ procs' = With(QueuedRequest("login", FALSE))
    /\ ev' = CallEv("loginCall", "none", FALSE)
    /\ Snapped
    /\ UNCHANGED <<user, accessToken, refreshToken, isAuthenticated,
                   cookieAccess, cookieRefresh, mode, nav>>

\* logout(): with a refresh token in the store POST /auth/logout is handed
\* to the client and awaited; without one the finally block runs at once.
LogoutCall ==
    /\ IF logoutNotifies
       THEN /\ MayCall
            /\ procs' = With(QueuedRequest("logout", FALSE))
            /\ ev' = CallEv("logoutCall", "none", FALSE)
            /\ UNCHANGED <<store, cookieAccess, cookieRefresh>>
       ELSE /\ MaySync
            /\ logoutFinally
            /\ ev' = CallEv("logoutDone", "none", TRUE)
            /\ UNCHANGED procs
    /\ Snapped
    /\ UNCHANGED <<mode, nav>>

\* Mutant of NoRefreshToken: the cookie is consulted instead of the store.
NoRefreshToken_fromCookie == cookieRefresh = Null

\* refreshAccessToken, lines 400-404: the store holds no refresh token.
NoRefreshToken == refreshToken = Null

\* refreshAccessToken(): without a refresh token in the store the error is
\* thrown and caught before any request; otherwise POST /auth/refresh is
\* handed to the client.
RefreshCall ==
    /\ IF NoRefreshToken
       THEN /\ MaySync
            /\ logoutFinally
            /\ ev' = Ev("refreshFail", "none", NoReq, "NoRefreshToken", "none", NoBody, TRUE, FALSE)
            /\ UNCHANGED procs
       ELSE /\ MayCall
            /\ procs' = With(QueuedRequest("refresh", isAuthenticated))
            /\ ev' = CallEv("refreshCall", "none", FALSE)
            /\ UNCHANGED <<store, cookieAccess, cookieRefresh>>
    /\ Snapped
    /\ UNCHANGED <<mode, nav>>

\* Any other API call made through the Gateway (usersApi, rolesApi, ...).
ApiCall ==
    /\ MayCall
    /\ procs' = With(QueuedRequest("api", FALSE))
    /\ ev' = CallEv("apiCall", "none", FALSE)
    /\ Snapped
    /\ UNCHANGED <<store, cookieAccess, cookieRefresh, mode, nav>>

\* setUser(user)
SetUser(u) ==
    /\ MaySync
    /\ user' = u
    /\ ev' = CallEv("setUser", "none", FALSE)
    /\ Snapped
    /\ UNCHANGED <<accessToken, refreshToken, isAuthenticated, isLoading,
                   cookieAccess, cookieRefresh, procs, mode, nav>>

\* setTokens({accessToken, refreshToken})
SetTokens(a, r) ==
    /\ MaySync
    /\ cookieAccess' = a
    /\ cookieRefresh' = r
    /\ accessToken' = a
    /\ refreshToken' = r
    /\ isAuthenticated' = TRUE
    /\ ev' = CallEv("setTokens", "none", FALSE)
    /\ Snapped
    /\ UNCHANGED <<user, isLoading, procs, mode, nav>>

\* The history labels of a checkAuth() call; "checkAuthAgain": the call
\* directly follows another checkAuth() call, nothing having run in between.
CheckAuthOps == {"checkAuth", "checkAuthAgain"}

CheckAuthOp == IF ev.op \in CheckAuthOps THEN "checkAuthAgain" ELSE "checkAuth"

\* Mutant of CheckAuth: the cookies are consumed by the call that reads them.
CheckAuth_consumesCookies ==
    LET s == checkAuthState(cookieAccess, cookieRefresh, user)
    IN  /\ MaySync
        /\ user' = s.user
        /\ accessToken' = s.accessToken
        /\ refreshToken' = s.refreshToken
        /\ isAuthenticated' = s.isAuthenticated
        /\ cookieAccess' = Null
        /\ cookieRefresh' = Null
        /\ ev' = CallEv(CheckAuthOp, "none", FALSE)
        /\ Snapped
        /\ UNCHANGED <<isLoading, procs, mode, nav>>

\* checkAuth()
CheckAuth ==
    LET s == checkAuthState(cookieAccess, cookieRefresh, user)
    IN  /\ MaySync
        /\ user' = s.user
        /\ accessToken' = s.accessToken
        /\ refreshToken' = s.refreshToken
        /\ isAuthenticated' = s.isAuthenticated
        /\ ev' = CallEv(CheckAuthOp, "none", FALSE)
        /\ Snapped
        /\ UNCHANGED <<isLoading, cookieAccess, cookieRefresh,
                       procs, mode, nav>>

(* ------------------------------------------------------ network responses *)

\* Request interceptor, run in the microtask after ApiClient.request was
\* called: the accessToken cookie is read now and the request goes out.
Dispatch(r) ==
    /\ r.pc = "queued"
    /\ procs' = Becomes(r, [r EXCEPT !.pc = "net", !.sent = 1])
    /\ ev' = Ev("dispatch", "none", r, "none", Bearer(cookieAccess), NoBody,
                FALSE, FALSE)
    /\ UNCHANGED <<store, cookieAccess, cookieRefresh, mode, snap, nav>>

\* Mutant of ShouldRefresh: the _retry flag is not consulted.
ShouldRefresh_always(r) == TRUE

\* Response interceptor, line 65: a 401 is handled by a refresh only for a
\* request not yet flagged _retry.
ShouldRefresh(r) == ~r.retry

\* Response interceptor, lines 69-72: the refresh token is read from the cookie.
HasRefreshCookie == cookieRefresh # Null

\* Mutant of Refreshing: the request is replayed as soon as the refresh call
\* is issued, without awaiting it.
Refreshing_replaysAtOnce(r) ==
    [r EXCEPT !.pc = "gwRefresh", !.retry = TRUE, !.refreshes = Inc(@),
              !.sent = Inc(@)]

\* Response interceptor, lines 66 and 75: the request is flagged and the
\* refresh call issued.
Refreshing(r) ==
    [r EXCEPT !.pc = "gwRefresh", !.retry = TRUE, !.refreshes = Inc(@)]

\* Mutant of Replayed: the replay is a fresh config that has lost _retry.
Replayed_unflagged(r) == [r EXCEPT !.pc = "net", !.sent = Inc(@), !.retry = FALSE]

\* Response interceptor, line 89: the request is handed to the client again.
Replayed(r) == [r EXCEPT !.pc = "net", !.sent = Inc(@)]

\* The server answers request r with 2xx and a body.
RespondOk(r, body) ==
    /\ r.pc = "net"
    /\ Drained
    /\ body \in BodiesFor(r.kind)
    /\ Settle(r, TRUE, body, "none", GwKeep, "2xx")

\* The server answers request r with 401.
Respond401(r) ==
    /\ r.pc = "net"
    /\ Drained
    /\ IF ShouldRefresh(r)
       THEN IF HasRefreshCookie
            THEN /\ procs' = Becomes(r, Refreshing(r))
                 /\ ev' = Ev("gwRefreshCall", "401", r, "none", "none", NoBody,
                             FALSE, FALSE)
                 /\ UNCHANGED <<store, cookieAccess, cookieRefresh, mode, snap, nav>>
            ELSE Settle(r, FALSE, NoBody, "NoRefreshToken", GwCatch, "401")
       ELSE Settle(r, FALSE, NoBody, "Unauthorized", GwKeep, "401")

\* Mutant of RespondError: the interceptor handles every failure as a 401.
RespondError_asUnauthorized(r) ==
    /\ r.pc = "net"
    /\ Drained
    /\ IF ShouldRefresh(r)
       THEN IF HasRefreshCookie
            THEN /\ procs' = Becomes(r, Refreshing(r))
                 /\ ev' = Ev("gwRefreshCall", "error", r, "none", "none", NoBody,
                             FALSE, FALSE)
                 /\ UNCHANGED <<store, cookieAccess, cookieRefresh, mode, snap, nav>>
            ELSE Settle(r, FALSE, NoBody, "NoRefreshToken", GwCatch, "error")
       ELSE Settle(r, FALSE, NoBody, "Other", GwKeep, "error")

\* Request r fails otherwise: another status, a timeout, no connection.
RespondError(r) ==
    /\ r.pc = "net"
    /\ Drained
    /\ Settle(r, FALSE, NoBody, "Other", GwKeep, "error")

\* Mutant of RefreshedCookie: the new token is not written to the cookie.
RefreshedCookie_stale(tok) == cookieAccess

\* Response interceptor, lines 80-85: the access-token cookie after a
\* successful refresh that issued tok.
RefreshedCookie(tok) == tok

\* Lines 88-89 and 50-53: the replay's Authorization header is set to the new
\* token, and the request interceptor then overwrites it with the cookie c
\* when that is present.
ReplayBearer(tok, c) == IF c # Null THEN c ELSE tok

\* The interceptor's refresh call returns 2xx with success and a new access
\* token: cookie written, header set, original request replayed.
GwRefreshOk(r, tok) ==
    /\ r.pc = "gwRefresh"
    /\ Drained
    /\ cookieAccess' = RefreshedCookie(tok)
    /\ procs' = Becomes(r, Replayed(r))
    /\ ev' = Ev("gwReplay", "refresh2xx", r, "none",
                ReplayBearer(tok, cookieAccess'),
                Body(TRUE, TRUE, Null, tok, Null), FALSE, FALSE)
    /\ UNCHANGED <<store, cookieRefresh, mode, snap, nav>>

\* The interceptor's refresh call returns 2xx without success: the handler
\* falls through to the rejection of the original 401.
GwRefreshNoSuccess(r) ==
    /\ r.pc = "gwRefresh"
    /\ Drained
    /\ Settle(r, FALSE, NoBody, "Unauthorized", GwKeep, "refreshNoSuccess")

\* The interceptor's refresh call fails: catch (refreshError).
GwRefreshError(r) ==
    /\ r.pc = "gwRefresh"
    /\ Drained
    /\ Settle(r, FALSE, NoBody, "RefreshError", GwCatch, "refreshError")

AllBodies == LoginBodies \cup RefreshBodies \cup PlainBodies

\* Some response arrives for the outstanding call of request r.
Respond(r) ==
    /\ BagIn(r, procs)
    /\ \/ \E body \in AllBodies : RespondOk(r, body)
       \/ Respond401(r)
       \/ RespondError(r)
       \/ \E tok \in AccessTokens : GwRefreshOk(r, tok)
       \/ GwRefreshNoSuccess(r)
       \/ GwRefreshError(r)

(* ---------------------------------------------------------- specification *)

\* The state after module load: the store's defaults, the user rehydrated
\* from 'auth-storage', then checkAuth() on the cookies found.
InitWith(m) ==
    \E pu \in Users \cup {Null}, ca \in AccessTokens \cup {Null},
       cr \in RefreshTokens \cup {Null} :
        LET s == checkAuthState(ca, cr, pu)
        IN  /\ user = s.user
            /\ accessToken = s.accessToken
            /\ refreshToken = s.refreshToken
            /\ isAuthenticated = s.isAuthenticated
            /\ isLoading = FALSE
            /\ cookieAccess = ca
            /\ cookieRefresh = cr
            /\ procs = EmptyBag
            /\ ev = CallEv("init", "none", FALSE)
            /\ mode = m
            /\ snap = NoSnap
            /\ nav = NoNav

Init == InitWith("conc")

InitSeq == InitWith("seq")

Next ==
    \/ LoginCall
    \/ LogoutCall
    \/ RefreshCall
    \/ ApiCall
    \/ \E u \in Users : SetUser(u)
    \/ \E a \in AccessTokens, r \in RefreshTokens : SetTokens(a, r)
    \/ CheckAuth
    \/ \E r \in BagToSet(procs) : Dispatch(r)
    \/ \E r \in BagToSet(procs), body \in AllBodies : RespondOk(r, body)
    \/ \E r \in BagToSet(procs) : Respond401(r)
    \/ \E r \in BagToSet(procs) : RespondError(r)
    \/ \E r \in BagToSet(procs), tok \in AccessTokens : GwRefreshOk(r, tok)
    \/ \E r \in BagToSet(procs) : GwRefreshNoSuccess(r)
    \/ \E r \in BagToSet(procs) : GwRefreshError(r)

\* Operations may overlap.
Spec == Init /\ [][Next]_vars

\* The caller awaits each operation before it calls the next.
SeqSpec == InitSeq /\ [][Next]_vars

\* Every request record that can be in flight: queued, first dispatch,
\* refresh call outstanding, replay; only a logout can belong to a refreshAccessToken
\* that has returned, and only these two carry auth0.
Requests ==
    {r \in [kind : {"login", "logout", "refresh", "api"},
            pc : {"queued", "net", "gwRefresh"},
            retry : BOOLEAN, sent : 0..2, refreshes : 0..1,
            ret : {"none", "false"}, auth0 : BOOLEAN, mark : BOOLEAN] :
        /\ r.sent = 0 <=> r.pc = "queued"
        /\ r.pc = "queued" => (~r.retry /\ r.ret = "none")
        /\ r.retry <=> r.refreshes = 1
        /\ r.sent = 2 <=> (r.retry /\ r.pc = "net")
        /\ r.ret = "false" => r.kind = "logout"
        /\ r.auth0 => (r.kind = "refresh" \/ r.ret = "false")}

\* The request interceptor of some queued request runs.
Dispatching == \E r \in BagToSet(procs) : Dispatch(r)

\* A call made through the axios instance returns for an operation of kind
\* k: the instance is created with timeout 30000, so such a call settles
\* with a response or an error.
RespondKind(k) ==
    \E r \in BagToSet(procs) : r.kind = k /\ r.pc = "net" /\ Respond(r)

\* What the code's scheduling provides: microtasks run, and calls made
\* through the axios instance return.  The interceptor's own refresh call
\* (lines 75-77) is made with the global axios, which has no timeout:
\* nothing makes a request at pc "gwRefresh" move on.
LiveSpec ==
    /\ Init
    /\ [][Next]_vars
    /\ WF_vars(Dispatching)
    /\ \A k \in {"login", "logout", "refresh", "api"} : WF_vars(RespondKind(k))

\* The request an observer follows is in flight.
TrackedInFlight == \E r \in BagToSet(procs) : r.mark

\* An observer starts to follow request r, at any moment of its life: the
\* request is marked, and nothing of the program changes.
Track(r) ==
    /\ ~TrackedInFlight
    /\ procs' = Becomes(r, [r EXCEPT !.mark = TRUE])
    /\ UNCHANGED <<store, cookieAccess, cookieRefresh, ev, mode, snap, nav>>

\* The program's steps, with one request at a time followed.
ReturnNext ==
    \/ Next
    \/ \E r \in BagToSet(procs) : Track(r)

\* A network call made for the followed request returns and is handled:
\* the response to the request itself or to the refresh call the
\* interceptor made for it.
TrackedReturns == \E r \in BagToSet(procs) : r.mark /\ Respond(r)

\* The hypothesis that every network call eventually returns a response or
\* an error, the refresh call of the interceptor included.  The code
\* provides this only for calls through the axios instance (timeout
\* 30000); for the interceptor's refresh call it is an assumption about the
\* network.  Stated here is less: request interceptors run, and the calls
\* made for the one request that is followed return.  A response is handled
\* at a turn of the event loop, when the microtasks of the calls made have
\* run; other handlers may queue requests again and again in between, so
\* the fairness is strong: a call that returns is handled at one of the
\* turns at which it can be.
ReturnSpec ==
    /\ Init
    /\ [][ReturnNext]_vars
    /\ WF_vars(Dispatching)
    /\ SF_vars(TrackedReturns)

TypeOK ==
    /\ user \in Users \cup {Null}
    /\ accessToken \in AccessTokens \cup {Null}
    /\ refreshToken \in RefreshTokens \cup {Null}
    /\ isAuthenticated \in BOOLEAN
    /\ isLoading \in BOOLEAN
    /\ cookieAccess \in AccessTokens \cup {Null}
    /\ cookieRefresh \in RefreshTokens \cup {Null}
    /\ BagToSet(procs) \subseteq Requests
    /\ BagCardinality(procs) <= MaxProcs
    /\ mode \in {"conc", "seq"}

(* ------------------------------------------------------ permission checks *)

\* Number of roles an identity may hold.
MaxRoles == 2

\* Permission.resource and Permission.action values held by roles, and the
\* actions asked about ("delete" is held by no role).
Resources == {"user", "role"}
HeldActions == {"read", "manage"}
AskedActions == {"read", "delete", "manage"}

\* Permission, as far as access checks read it.
Permissions == [resource : Resources, action : HeldActions]

\* Role.permissions; the checks only ask whether some element satisfies a
\* condition, so the list is modelled by the set of its elements.
Roles == SUBSET Permissions

\* User.roles of the identities rendered for, same modelling.
RoleLists == {rs \in SUBSET Roles : Cardinality(rs) <= MaxRoles}

\* Mutant of hasPermission: "manage" on any resource grants the pair.
hasPermission_anyManage(id, resource, action) ==
    /\ id.present
    /\ \E role \in id.roles : \E p \in role :
          \/ p.resource = resource /\ p.action = action
          \/ p.action = "manage"

\* hasPermission(resource, action) of the store, for the identity id: false
\* without an identity, else whether some role holds a permission on the
\* resource with the action or with "manage".
hasPermission(id, resource, action) ==
    /\ id.present
    /\ \E role \in id.roles : \E p \in role :
          /\ p.resource = resource
          /\ p.action = action \/ p.action = "manage"

\* Sidebar, line 108 and the navigation tags: the key "resource:action".
PermissionKey(resource, action) == resource \o ":" \o action

\* Sidebar.hasPermission(permission), for the identity id.
SidebarHasPermission(id, permission) ==
    /\ id.present
    /\ \E role \in id.roles : \E p \in role :
          \/ PermissionKey(p.resource, p.action) = permission
          \/ p.action = "manage"

\* The identity of nav, as the checks read the store's user.
NavIdentity == [present |-> nav.present, roles |-> nav.roles]

\* The store is asked hasPermission(nav.resource, nav.action).
HasPermissionCall ==
    /\ nav.op = "none"
    /\ nav' = [nav EXCEPT !.op = "hasPermission",
                          !.result = hasPermission(NavIdentity, nav.resource, nav.action)]
    /\ UNCHANGED <<store, cookies, procs, ev, mode, snap>>

\* The Sidebar filters a navigation item tagged nav.resource:nav.action.
SidebarFilter ==
    /\ nav.op = "none"
    /\ nav' = [nav EXCEPT !.op = "sidebar",
                          !.result = SidebarHasPermission(NavIdentity,
                                        PermissionKey(nav.resource, nav.action))]
    /\ UNCHANGED <<store, cookies, procs, ev, mode, snap>>

\* A logged-out store, and any identity (or none) asked about any pair.
PermInit ==
    /\ user = Null /\ accessToken = Null /\ refreshToken = Null
    /\ isAuthenticated = FALSE /\ isLoading = FALSE
    /\ cookieAccess = Null /\ cookieRefresh = Null
    /\ procs = EmptyBag
    /\ ev = CallEv("init", "none", FALSE)
    /\ mode = "conc"
    /\ snap = NoSnap
    /\ \E present \in BOOLEAN, rs \in RoleLists, res \in Resources, act \in AskedActions :
          /\ ~present => rs = {}
          /\ nav = [present |-> present, roles |-> rs, resource |-> res,
                    action |-> act, op |-> "none", result |-> FALSE]

PermNext == HasPermissionCall \/ SidebarFilter

\* Permission checks on every identity and every pair asked about.
PermSpec == PermInit /\ [][PermNext]_vars

(* ----------------------------------------------------------- user profile *)

\* The fields of a user that profile edits touch, and their values.
Fields == {"email", "firstName", "lastName"}
FieldValues == {"v1", "v2"}

\* A user as a record of its fields, and a Partial<User>: some of the fields.
UserRecords == [Fields -> FieldValues]
Partials == UNION {[d -> FieldValues] : d \in SUBSET Fields}

\* Mutant of Merge: the partial replaces the user, and the fields it does not
\* name are lost.
Merge_replaces(u, partial) ==
    [f \in Fields |-> IF f \in DOMAIN partial THEN partial[f] ELSE "undefined"]

\* updateUser(partial): the fields of the partial over those of the user.
Merge(u, partial) ==
    [f \in Fields |-> IF f \in DOMAIN partial THEN partial[f] ELSE u[f]]

\* updateUser(partial) on a store that holds a user; nav keeps the partial
\* and the user as it was.
UpdateUser(partial) ==
    /\ MaySync
    /\ user' = Merge(user, partial)
    /\ nav' = [op |-> "updateUser", partial |-> partial, before |-> user]
    /\ ev' = CallEv("updateUser", "none", FALSE)
    /\ Snapped
    /\ UNCHANGED <<accessToken, refreshToken, isAuthenticated, isLoading,
                   cookieAccess, cookieRefresh, procs, mode>>

\* A store that holds some user and any tokens, nothing in flight.
ProfileInit ==
    /\ user \in UserRecords
    /\ accessToken \in AccessTokens \cup {Null}
    /\ refreshToken \in RefreshTokens \cup {Null}
    /\ isAuthenticated \in BOOLEAN
    /\ isLoading = FALSE
    /\ cookieAccess = accessToken
    /\ cookieRefresh = refreshToken
    /\ procs = EmptyBag
    /\ ev = CallEv("init", "none", FALSE)
    /\ mode = "conc"
    /\ snap = NoSnap
    /\ nav = NoNav

ProfileNext ==
    \/ \E u \in UserRecords : SetUser(u)
    \/ \E partial \in Partials : UpdateUser(partial)

\* Profile edits: setUser and updateUser on users with fields.
ProfileSpec == ProfileInit /\ [][ProfileNext]_vars

(* ------------------------------------------------------------------ claims *)

LoggedOut ==
    /\ user = Null
    /\ accessToken = Null
    /\ refreshToken = Null
    /\ ~isAuthenticated

NoCookies == cookieAccess = Null /\ cookieRefresh = Null

\* C1: in every reachable state of the store, under any interleaving of its
\* operations, isAuthenticated is true exactly when both the in-memory
\* accessToken and the in-memory refreshToken are non-null.
C1_AuthIffBothTokens ==
    isAuthenticated <=> (accessToken # Null /\ refreshToken # Null)

\* The events in which an operation's Gateway request settled.
SettleOps == {"loginOk", "loginFail", "logoutDone", "refreshOk", "refreshFail",
              "apiOk", "apiFail"}

\* The errors with which the Gateway rejects a request.
GatewayErrors == {"Unauthorized", "NoRefreshToken", "RefreshError", "Other"}

\* C2: whenever refreshAccessToken was called and the refresh endpoint
\* failed (the request was rejected, or resolved without success or without
\* an access token), refreshAccessToken has returned false and the session
\* eventually is fully logged out: isAuthenticated false, user and both
\* in-memory tokens null, both token cookies removed.
C2_FailedRefreshLogsOut ==
    (ev.op = "refreshFail" /\ ev.resp # "none") ~> (LoggedOut /\ NoCookies)

\* C3: a request is dispatched at most twice and the interceptor issues at
\* most one refresh call for it; a 401 for the replayed request settles the
\* request at once, rejected with the authorization error, with no refresh
\* call and no replay.
C3_AtMostOneReplay ==
    /\ \A r \in BagToSet(procs) : r.sent <= 2 /\ r.refreshes <= 1
    /\ (ev.resp = "401" /\ ev.req.retry) =>
          /\ ev.op \in SettleOps
          /\ ev.err = "Unauthorized"
          /\ ev.req.sent = 2
          /\ ev.req.refreshes = 1

\* C3 witness: the replay of a request was answered with 401.
C3_Witness ==
    /\ ev.resp = "401"
    /\ ev.req.retry
    /\ ev.req.sent = 2
    /\ ev.op = "apiFail"

\* C4: when the refresh call for a request that received its first 401
\* succeeds, the new access token is in the cookie and the request is
\* dispatched once more with that token as its bearer credential; the
\* replay is the request's second and last dispatch, and the awaiting
\* operation gets the replay's outcome: resolved on 2xx, rejected with the
\* authorization error on 401, rejected on any other failure.
C4_ReplayWithNewToken ==
    /\ ev.op = "gwReplay" =>
          /\ ev.req.sent = 1
          /\ ev.req.refreshes = 1
          /\ cookieAccess = ev.body.at
          /\ ev.bearer = ev.body.at
          /\ BagIn([ev.req EXCEPT !.pc = "net", !.sent = 2], procs)
    /\ \A r \in BagToSet(procs) : r.sent <= 2
    /\ (ev.op \in SettleOps /\ ev.req.sent = 2) =>
          /\ ev.resp \in {"2xx", "401", "error"}
          /\ ev.resp = "2xx" => ev.err \notin GatewayErrors
          /\ ev.resp = "401" => ev.err = "Unauthorized"
          /\ ev.resp = "error" => ev.err = "Other"

\* C4 witness: the request of a plain API call has just been replayed
\* carrying the newly issued token A2, which is also in the cookie.
C4_Witness ==
    /\ ev.op = "gwReplay"
    /\ ev.bearer = "A2"
    /\ cookieAccess = "A2"
    /\ ev.req.kind = "api"

\* C5: whenever logout's finally block has run, whether the server
\* notification succeeded, failed or was not sent, user, accessToken and
\* refreshToken are null, isAuthenticated and isLoading are false and both
\* token cookies are removed.
C5_LogoutClearsAll ==
    ev.teardown => (LoggedOut /\ ~isLoading /\ NoCookies)

\* C5 witness: a logout whose server notification failed has completed.
C5_Witness ==
    /\ ev.op = "logoutDone"
    /\ ev.resp = "error"
    /\ ev.err = "Other"

\* C6: when login fails, user, accessToken, refreshToken, isAuthenticated
\* and both token cookies are as they were when login was called.
C6_FailedLoginChangesNothing ==
    ev.op = "loginFail" =>
        /\ user = snap.user
        /\ accessToken = snap.accessToken
        /\ refreshToken = snap.refreshToken
        /\ isAuthenticated = snap.isAuthenticated
        /\ cookieAccess = snap.cookieAccess
        /\ cookieRefresh = snap.cookieRefresh

\* C7: when login succeeds with response {user, accessToken, refreshToken},
\* the store holds exactly these with isAuthenticated true and isLoading
\* false, and the cookies hold the same two tokens.
C7_LoginStoresResponse ==
    ev.op = "loginOk" =>
        /\ user = ev.body.user
        /\ accessToken = ev.body.at
        /\ refreshToken = ev.body.rt
        /\ isAuthenticated
        /\ ~isLoading
        /\ cookieAccess = ev.body.at
        /\ cookieRefresh = ev.body.rt

\* C7 witness: a login has succeeded with tokens A2, R1 for user u1.
C7_Witness ==
    /\ ev.op = "loginOk"
    /\ ev.body.user = "u1"
    /\ ev.body.at = "A2"
    /\ ev.body.rt = "R1"

\* C8: a logout called right after a login that succeeded from the
\* logged-out state ends in the pre-login shape: user, accessToken and
\* refreshToken null, isAuthenticated false, no token cookie.
C8_LoginThenLogout ==
    (ev.op = "logoutDone" /\ snap.afterLogin) => (LoggedOut /\ NoCookies)

\* C8 witness: such a logout has completed after notifying the server.
C8_Witness ==
    /\ ev.op = "logoutDone"
    /\ snap.afterLogin
    /\ ev.resp = "2xx"

\* C9: when refreshAccessToken succeeds (returns true), the in-memory and
\* the persisted access token are the newly issued one, the in-memory
\* refresh token, the persisted refresh token and the user are as they were
\* when it was called, and isAuthenticated is true.
C9_RefreshChangesOnlyAccess ==
    ev.op = "refreshOk" =>
        /\ accessToken = ev.body.at
        /\ cookieAccess = ev.body.at
        /\ refreshToken = snap.refreshToken
        /\ cookieRefresh = snap.cookieRefresh
        /\ user = snap.user
        /\ isAuthenticated

\* C10: a call of refreshAccessToken while the store holds no refresh token
\* fails with the no-refresh-token error (false is returned) and dispatches
\* no request.
C10_NoRefreshTokenNoCall ==
    [][(/\ refreshToken = Null
        /\ ev'.resp = "none"
        /\ ev'.op \in {"refreshCall", "refreshFail"})
       => (/\ ev'.op = "refreshFail"
           /\ ev'.err = "NoRefreshToken"
           /\ ev'.bearer = "none"
           /\ procs' = procs)]_vars

\* C10 witness: refreshAccessToken has just failed so, with a request of
\* another operation in flight that it left alone.
C10_Witness ==
    /\ ev.op = "refreshFail"
    /\ ev.err = "NoRefreshToken"
    /\ ev.resp = "none"
    /\ procs # EmptyBag

\* checkAuth's post-condition on the cookies as they are: both present, the
\* in-memory tokens equal them and the session is authenticated; either
\* absent, the session is logged out.
CheckAuthRestored ==
    IF cookieAccess # Null /\ cookieRefresh # Null
    THEN accessToken = cookieAccess /\ refreshToken = cookieRefresh /\ isAuthenticated
    ELSE LoggedOut

\* C11: checkAuth sets the session from persisted storage: with both cookies
\* present the in-memory tokens become the persisted values, isAuthenticated
\* true and the user is the one held at the call; with either cookie absent
\* user and both tokens become null and isAuthenticated false.  The state
\* after module load is that of a checkAuth on the cookies found, so a
\* process started without persisted tokens begins logged out.
C11_CheckAuthFromStorage ==
    ev.op \in CheckAuthOps \cup {"init"} =>
        /\ CheckAuthRestored
        /\ ev.op \in CheckAuthOps =>
              /\ cookieAccess = snap.cookieAccess
              /\ cookieRefresh = snap.cookieRefresh
              /\ isAuthenticated => user = snap.user

\* C11 witness: checkAuth has restored a session from both cookies, a user
\* being kept.
C11_Witness ==
    /\ ev.op = "checkAuth"
    /\ cookieAccess # Null /\ cookieRefresh # Null
    /\ accessToken = cookieAccess /\ refreshToken = cookieRefresh
    /\ isAuthenticated
    /\ user # Null

\* C12: checkAuth is idempotent: a second call directly after a first, the
\* persisted storage unchanged in between, leaves the session state as the
\* first call left it.
C12_CheckAuthIdempotent ==
    [][ev'.op = "checkAuthAgain" => (store' = store /\ cookies' = cookies)]_vars

\* C12 witness: checkAuth has been called twice in a row, with a session
\* restored from the cookies.
C12_Witness ==
    /\ ev.op = "checkAuthAgain"
    /\ isAuthenticated
    /\ user # Null

\* The permissions the identity of nav holds through its roles.
Held == UNION nav.roles

\* C13: hasPermission(r, a) is false when no user is set; otherwise it is
\* true exactly when some role of the user holds a permission on r whose
\* action is a or "manage".  A "manage" permission on r grants every action
\* on r, and permissions on other resources, "manage" included, grant
\* nothing on r.
C13_HasPermissionRule ==
    nav.op = "hasPermission" =>
        /\ ~nav.present => ~nav.result
        /\ nav.present =>
              (nav.result <=>
                  \/ [resource |-> nav.resource, action |-> nav.action] \in Held
                  \/ [resource |-> nav.resource, action |-> "manage"] \in Held)
        /\ (nav.present /\ \A p \in Held : p.resource # nav.resource) => ~nav.result

\* C13 witness: an identity that holds "manage" on another resource and
\* nothing on the resource asked about has been refused.
C13_Witness ==
    /\ nav.op = "hasPermission"
    /\ nav.present
    /\ \E p \in Held : p.action = "manage" /\ p.resource # nav.resource
    /\ \A p \in Held : p.resource # nav.resource
    /\ ~nav.result

\* The interceptor's refresh calls in flight.
RefreshCallsInFlight ==
    BagCardinality([r \in {x \in BagToSet(procs) : x.pc = "gwRefresh"} |-> procs[r]])

\* A request not yet retried is answered 401 while no refresh-token cookie
\* is set.
Unauthorized_NoRefreshCookie ==
    /\ ev'.resp = "401"
    /\ ~ev'.req.retry
    /\ cookieRefresh = Null

\* C14 (as stated): when a request not yet retried receives 401 and no
\* refresh token is persisted, no refresh call is issued, the request is
\* rejected to its caller with the authorization error of the original
\* response, the cookies are cleared and the redirect to login is made.
C14_NoTokenRejectsOriginalError ==
    [][Unauthorized_NoRefreshCookie
       => (/\ ev'.op \in SettleOps
           /\ RefreshCallsInFlight' = RefreshCallsInFlight
           /\ ev'.err = "Unauthorized"
           /\ NoCookies'
           /\ ev'.redirect)]_vars

\* C14 (amended): in that case no refresh call is issued, the request is
\* rejected to its caller with the interceptor's own no-refresh-token error,
\* the cookies are cleared and the redirect to login is made.
C14_NoTokenForcesLogout ==
    [][Unauthorized_NoRefreshCookie
       => (/\ ev'.op \in SettleOps
           /\ RefreshCallsInFlight' = RefreshCallsInFlight
           /\ ev'.err = "NoRefreshToken"
           /\ NoCookies'
           /\ ev'.redirect)]_vars

\* C14 witness: a plain API request was answered 401 with an access-token
\* cookie but no refresh-token cookie set; it has been rejected so, the
\* cookies are gone and the store still holds its tokens.
C14_Witness ==
    /\ ev.op = "apiFail"
    /\ ev.resp = "401"
    /\ ~ev.req.retry
    /\ ev.err = "NoRefreshToken"
    /\ ev.redirect
    /\ NoCookies
    /\ accessToken # Null

\* C15: when the interceptor's refresh call fails in any way (transport
\* error, non-2xx status, or a 2xx body whose success flag is false), both
\* cookies are cleared, the redirect to login is made, the original request
\* is not replayed and it is rejected to its caller.
C15_FailedGatewayRefreshLogsOut ==
    ev.resp \in {"refreshError", "refreshNoSuccess"} =>
        /\ NoCookies
        /\ ev.redirect
        /\ ev.op \in SettleOps
        /\ ev.err \in GatewayErrors

\* C16: when two or more requests receive 401 concurrently, at most one
\* refresh call of the interceptor is in flight at any time.
C16_SingleFlightRefresh == RefreshCallsInFlight <= 1

\* C17: after a refresh made by the interceptor has succeeded, the store's
\* in-memory accessToken equals the access token just written to the cookie.
C17_GatewayRefreshUpdatesStore ==
    ev.op = "gwReplay" => (accessToken = ev.body.at /\ cookieAccess = ev.body.at)

\* C18: a call to the refresh endpoint never re-enters the interceptor's 401
\* handling: when the interceptor's own refresh call fails it is followed by
\* no further refresh call, and a 401 answered to the POST /auth/refresh of
\* refreshAccessToken makes the interceptor issue no refresh call for it.
C18_RefreshNeverReenters ==
    /\ ev.resp \in {"refreshError", "refreshNoSuccess"} => ev.op \in SettleOps
    /\ ev.op = "gwRefreshCall" => ev.req.kind # "refresh"

\* The step dispatched a request: a first attempt made by a store operation
\* or an API call, the replay after a refresh, or the logout notification
\* that refreshAccessToken's catch block starts.
Dispatched ==
    \/ ev.op \in {"dispatch", "gwReplay"}
    \/ ev.op = "refreshFail" /\ ev.resp # "none" /\ ~ev.teardown

\* C19: every request the Gateway dispatches, first attempt or replay,
\* carries as bearer the access token that is in the cookie at the moment of
\* dispatch when one is set, whatever the store holds in memory; a first
\* attempt dispatched with no access-token cookie carries no bearer.
C19_BearerFromPersistedStorage ==
    Dispatched => ev.bearer = (IF cookieAccess # Null THEN cookieAccess ELSE "none")

\* C19 witness: an API call was dispatched while the store's in-memory
\* access token differed from the cookie, and carries the cookie's token.
C19_Witness ==
    /\ ev.op = "dispatch"
    /\ ev.req.kind = "api"
    /\ cookieAccess # Null
    /\ accessToken # Null
    /\ accessToken # cookieAccess
    /\ ev.bearer = cookieAccess

\* C20: a request that fails with anything other than 401 is rejected to its
\* caller with that failure; the interceptor issues no refresh call, replays
\* nothing, makes no redirect and leaves the cookies as they are (checked on
\* the cookies for requests whose awaiting operation does not itself clear
\* them: logout's finally block and refreshAccessToken's catch block do).
C20_OtherErrorsNotRetried ==
    [][ev'.resp = "error"
       => (/\ ev'.op \in SettleOps
           /\ ev'.err = "Other"
           /\ ~ev'.redirect
           /\ RefreshCallsInFlight' = RefreshCallsInFlight
           /\ BagCardinality(procs') <= BagCardinality(procs)
           /\ ev'.req.kind # "refresh" => procs' = procs (-) SetToBag({ev'.req})
           /\ ev'.req.kind \in {"api", "login"} => cookies' = cookies)]_vars

\* C20 witness: a first attempt of an API call has failed with another error
\* while both cookies were set (a 401 would have started a refresh); it was
\* rejected and the cookies are still there.
C20_Witness ==
    /\ ev.op = "apiFail"
    /\ ev.resp = "error"
    /\ ~ev.req.retry
    /\ ev.err = "Other"
    /\ cookieAccess # Null /\ cookieRefresh # Null

\* C21: updateUser(partial) shallow-merges into the current user: every
\* field named in the partial takes the new value, every other field keeps
\* its value; setUser and updateUser leave accessToken, refreshToken and
\* isAuthenticated as they are.
C21_UpdateUserMerges ==
    [][ev'.op \in {"setUser", "updateUser"}
       => (/\ accessToken' = accessToken
           /\ refreshToken' = refreshToken
           /\ isAuthenticated' = isAuthenticated
           /\ ev'.op = "updateUser" =>
                 /\ DOMAIN user' = DOMAIN user
                 /\ \A f \in DOMAIN nav'.partial : user'[f] = nav'.partial[f]
                 /\ \A f \in DOMAIN user \ DOMAIN nav'.partial :
                       user'[f] = user[f])]_vars

\* C21 witness: updateUser was called on an authenticated store with a
\* partial naming firstName and lastName; firstName has changed, email is
\* as before.
C21_Witness ==
    /\ ev.op = "updateUser"
    /\ DOMAIN nav.partial = {"firstName", "lastName"}
    /\ user.firstName = nav.partial.firstName
    /\ user.firstName # nav.before.firstName
    /\ user.email = nav.before.email
    /\ isAuthenticated /\ accessToken # Null

\* C22: within the lifecycle of one request the replay comes after the
\* refresh: a replay is dispatched only in the step in which that request's
\* refresh call has returned with success and the new access token has been
\* written to the cookie, and no request has been dispatched a second time
\* while its refresh call is in flight.
C22_ReplayAfterRefresh ==
    /\ ev.op = "gwReplay" =>
          /\ ev.resp = "refresh2xx"
          /\ ev.req.pc = "gwRefresh" /\ ev.req.sent = 1
          /\ ev.body.success
          /\ cookieAccess = ev.body.at
          /\ BagIn(Replayed(ev.req), procs)
    /\ \A r \in BagToSet(procs) :
          /\ r.pc = "gwRefresh" => (r.sent = 1 /\ r.refreshes = 1)
          /\ r.sent > 1 => (r.pc = "net" /\ r.refreshes = 1 /\ r.retry)

\* C22 witness: one request has just been replayed after its refresh, the
\* new token being in the cookie, while the refresh call of another request
\* is still in flight and that request has not been replayed.
C22_Witness ==
    /\ ev.op = "gwReplay"
    /\ cookieAccess = ev.body.at
    /\ \E r \in BagToSet(procs) : r.sent = 2 /\ r.pc = "net"
    /\ \E r \in BagToSet(procs) : r.sent = 1 /\ r.pc = "gwRefresh"

\* The step settled a request: resolved or rejected to the operation that
\* awaits it.
Settled == ev.resp # "none" /\ ev.op \in SettleOps

\* The step settled the request that was followed.
TrackedSettled == Settled /\ ev.req.mark /\ ~TrackedInFlight

\* C23: assuming every network call returns, every request completes.  A
\* response handled for a request either settles it or moves it one stage on
\* (first dispatch, refresh call, replay), so a request is settled by the
\* third response at the latest; no request is dispatched more than twice or
\* has more than one refresh call issued for it; a request is settled either
\* resolved, on a 2xx response, or rejected with an error, never resolved on
\* anything else; and whichever request is followed, from whatever moment
\* of its life, that request is eventually settled.
C23_EveryRequestCompletes ==
    /\ [](\A r \in BagToSet(procs) : r.sent <= 2 /\ r.refreshes <= 1)
    /\ []((ev.resp # "none" /\ ~Settled) =>
             \/ /\ ev.op = "gwRefreshCall"
                /\ ev.req.pc = "net" /\ ev.req.sent = 1 /\ ev.req.refreshes = 0
             \/ /\ ev.op = "gwReplay"
                /\ ev.req.pc = "gwRefresh" /\ ev.req.sent = 1 /\ ev.req.refreshes = 1)
    /\ [](Settled =>
             /\ ev.req.sent <= 2 /\ ev.req.refreshes <= 1
             /\ ev.resp = "2xx" <=> ev.err \notin GatewayErrors)
    /\ TrackedInFlight ~> TrackedSettled

\* C23 witness: a request has completed after two dispatches and one refresh
\* call, resolved on the 2xx response to its replay.
C23_Witness ==
    /\ ev.op = "apiOk"
    /\ ev.req.mark
    /\ ev.resp = "2xx"
    /\ ev.req.sent = 2 /\ ev.req.refreshes = 1
    /\ ev.err = "none"

\* C24: at the moment refreshAccessToken returns false the session
\* teardown has completed: isAuthenticated is false, user and in-memory
\* tokens are null and both cookies are removed.
C24_FalseMeansLoggedOut ==
    ev.op = "refreshFail" => (LoggedOut /\ NoCookies)

\* C25: a logout that completes while a refreshAccessToken call is in
\* flight is final: when the refresh response then arrives with success the
\* session stays logged out, and no access token is written to the store
\* or to the cookie.
C25_LogoutIsFinal ==
    [][(/\ ev.op = "logoutDone"
        /\ LoggedOut /\ NoCookies
        /\ ev'.op = "refreshOk")
       => (/\ ~isAuthenticated'
           /\ accessToken' = Null
           /\ cookieAccess' = Null)]_vars

\* C26: a login that succeeds while a logout started earlier still awaits
\* its server notification is not undone: when that logout then completes,
\* nothing else being in flight, the session holds the user and the tokens
\* of the login and isAuthenticated is true.
C26_LoginSurvivesEarlierLogout ==
    [][(/\ ev.op = "loginOk"
        /\ ev'.op = "logoutDone"
        /\ ev'.req.kind = "logout" /\ ev'.req.ret = "none"
        /\ procs' = EmptyBag)
       => (/\ isAuthenticated'
           /\ user' = ev.body.user
           /\ accessToken' = ev.body.at
           /\ refreshToken' = ev.body.rt
           /\ cookieAccess' = ev.body.at
           /\ cookieRefresh' = ev.body.rt)]_vars

\* C27: whenever no operation is in flight the in-memory session agrees
\* with the cookies: isAuthenticated implies that both cookies are set and
\* equal the in-memory accessToken and refreshToken.  Stated here for the
\* states in which both cookies are set, where no redirect to the login
\* route is pending: there the claim requires the values to be equal.
C27_MemoryAgreesWithCookies ==
    (AllIdle /\ isAuthenticated /\ cookieAccess # Null /\ cookieRefresh # Null) =>
        /\ cookieAccess = accessToken
        /\ cookieRefresh = refreshToken

\* Persisted storage holds an access token without a refresh token.
LoneAccessCookie == cookieAccess # Null /\ cookieRefresh = Null

\* C28: under any interleaving of logout, refreshAccessToken and the
\* interceptor's refreshes, persisted storage does not hold an access token
\* without a refresh token once everything in flight has completed: no step
\* that leaves nothing in flight produces that state.
C28_NoLoneAccessCookie ==
    [][(~LoneAccessCookie /\ procs' = EmptyBag) => ~LoneAccessCookie']_vars

\* C29: when checkAuth finds exactly one of the two cookies and forces the
\* logged-out state, neither cookie is set afterwards, so that a request
\* made later carries no bearer and cannot start a silent refresh while the
\* store reports isAuthenticated false.
C29_CheckAuthClearsPartialCookies ==
    (ev.op \in CheckAuthOps /\ ~isAuthenticated) => NoCookies

\* C30: the Sidebar's navigation filter agrees with the store's permission
\* rule: an item tagged "resource:action" is shown exactly when some role of
\* the user holds a permission on that resource whose action is the tagged
\* one or "manage"; "manage" on another resource does not reveal the item.
C30_SidebarAgreesWithRule ==
    nav.op = "sidebar" =>
        (nav.result <=>
            /\ nav.present
            /\ \E p \in Held :
                  /\ p.resource = nav.resource
                  /\ p.action \in {nav.action, "manage"})

====
